---- MODULE Spec2Model ----
(***************************************************************************)
(* Election backend (FastAPI + SQLModel over SQLite).                     *)
(*                                                                         *)
(* The database tables are the state: Regions, Constituencies, Parties,    *)
(* Candidates, Voters, Ballots.  Primary keys are assigned by the store    *)
(* in insertion order, so each table is a sequence and a row's id is its   *)
(* index.  Every request handler runs in its own Session (get_session);    *)
(* create_ballot is split at the one place where it can interleave with    *)
(* another request: between its reads (session.get) with the in-memory     *)
(* judgement, and session.commit().                                        *)
(*                                                                         *)
(* Columns no handler branches on (citizen_id, voted_at, party_leader,     *)
(* candidate_number, total_population, ...) are left out.                  *)
(***************************************************************************)
EXTENDS Integers, Sequences, FiniteSets, TLC

\* ---------------------------------------------------------------- bounds
MaxRegions == 1
MaxConsts  == 2
MaxParties == 1
MaxCands   == 2
MaxVoters  == 1
MaxBallots == 2

\* ------------------------------------------------------- input domains
\* An absent Optional value (None / SQL NULL).  Ids start at 1, flags are 0/1.
None == -1

RegionNames  == {"North"}
PartyNames   == {"P"}
FullNames    == {"A"}
ConstNumbers == {1, 2}
VoteTypes    == {"Constituency", "PartyList", "Referendum"}   \* vote_type: str
FlagValues   == {0, 1}             \* has_voted_* values a client can send

\* Two concurrent sessions at most; one for the one-at-a-time runs.
SlotsConc == {1, 2}
SlotsSeq  == {1}

\* Ids a request may name; an id beyond the rows created so far names nothing.
ConstIds == {1, 2}
PartyIds == {1, 2}
CandIds  == {1, 2}
VoterIds == 1..MaxVoters

\* The JSON body of POST /ballots, as the Ballot model accepts it.  Every
\* linkage is tried with the two recognized types; with the unrecognized
\* type, every presence pattern of the two ids, in either constituency
\* relation to the voter's.
BallotRequests ==
    [voter_id : VoterIds, const_id : ConstIds,
     candidate_id : {None} \cup CandIds, party_id : {None} \cup PartyIds,
     vote_type : VoteTypes \ {"Referendum"}, is_valid : BOOLEAN]
    \cup
    [voter_id : VoterIds, const_id : {1},
     candidate_id : {None, 1}, party_id : {None, 1},
     vote_type : {"Referendum"}, is_valid : BOOLEAN]

VARIABLES regions, constituencies, parties, candidates, voters, ballots,
          session

vars == <<regions, constituencies, parties, candidates, voters, ballots,
          session>>

\* A session with no request in progress.
NoSession == [pc |-> "idle"]

Idle == \A s \in DOMAIN session : session[s] = NoSession

\* session.get(Model, id): the row, or nothing.
Exists(table, id) == id \in 1..Len(table)

Truthy(x) == x # 0

Init ==
    /\ regions = << >>
    /\ constituencies = << >>
    /\ parties = << >>
    /\ candidates = << >>
    /\ voters = << >>
    /\ ballots = << >>
    /\ session = [s \in SlotsConc |-> NoSession]

\* ------------------------------------------------------------ registry

\* POST /regions.  name_th is unique: a duplicate fails at commit.
create_region(name) ==
    /\ Len(regions) < MaxRegions
    /\ \A i \in 1..Len(regions) : regions[i].name_th # name
    /\ regions' = Append(regions, [name_th |-> name])
    /\ UNCHANGED <<constituencies, parties, candidates, voters, ballots,
                   session>>

\* POST /constituencies.  404 unless the region exists.
create_constituency(region_id, const_number) ==
    /\ Len(constituencies) < MaxConsts
    /\ Exists(regions, region_id)
    /\ constituencies' = Append(constituencies,
            [region_id |-> region_id, const_number |-> const_number])
    /\ UNCHANGED <<regions, parties, candidates, voters, ballots,
                   session>>

\* POST /parties.  party_name is unique.
create_party(name) ==
    /\ Len(parties) < MaxParties
    /\ \A i \in 1..Len(parties) : parties[i].party_name # name
    /\ parties' = Append(parties, [party_name |-> name])
    /\ UNCHANGED <<regions, constituencies, candidates, voters, ballots,
                   session>>

\* POST /candidates.  404 unless the constituency and the party exist.
create_candidate(const_id, party_id, full_name) ==
    /\ Len(candidates) < MaxCands
    /\ Exists(constituencies, const_id)
    /\ Exists(parties, party_id)
    /\ candidates' = Append(candidates,
            [const_id |-> const_id, party_id |-> party_id,
             full_name |-> full_name])
    /\ UNCHANGED <<regions, constituencies, parties, voters, ballots,
                   session>>

\* -------------------------------------------------------------- voters

\* POST /voters.  404 unless the constituency exists.  The body is a Voter,
\* so the client may send the two flags; they default to 0.
create_voter(const_id, hvc, hvl) ==
    /\ Len(voters) < MaxVoters
    /\ Exists(constituencies, const_id)
    /\ voters' = Append(voters,
            [const_id |-> const_id, has_voted_const |-> hvc,
             has_voted_list |-> hvl])
    /\ UNCHANGED <<regions, constituencies, parties, candidates, ballots,
                   session>>

\* PUT /voters/{voter_id}/status.  Each flag given is written as given.
update_voter_status(voter_id, hvc, hvl) ==
    /\ Exists(voters, voter_id)
    /\ voters' = [voters EXCEPT ![voter_id] =
            [@ EXCEPT !.has_voted_const = IF hvc # None THEN hvc ELSE @,
                      !.has_voted_list  = IF hvl # None THEN hvl ELSE @]]
    /\ UNCHANGED <<regions, constituencies, parties, candidates, ballots,
                   session>>

\* ------------------------------------------------------------- ballots

Recognized(vote_type) == vote_type \in {"Constituency", "PartyList"}

\* The voter's home constituency differs from the ballot's: is_valid is
\* set to False on the request object (and may be reassigned below).
HomeCheck(b, voter) ==
    IF voter.const_id # b.const_id THEN [b EXCEPT !.is_valid = FALSE] ELSE b

\* The two branches test each other's flag.
AlreadyVoted_Swapped(voter, vote_type) ==
    \/ vote_type = "Constituency" /\ Truthy(voter.has_voted_list)
    \/ vote_type = "PartyList" /\ Truthy(voter.has_voted_const)

\* Only the Constituency branch has the guard.
AlreadyVoted_ConstOnly(voter, vote_type) ==
    vote_type = "Constituency" /\ Truthy(voter.has_voted_const)

\* The duplicate-vote guard of each recognized branch.
AlreadyVoted(voter, vote_type) ==
    \/ vote_type = "Constituency" /\ Truthy(voter.has_voted_const)
    \/ vote_type = "PartyList" /\ Truthy(voter.has_voted_list)

\* The party_id of a Constituency ballot is not looked at.
ConstituencyGood_PartyIgnored(b, cands) ==
    /\ b.candidate_id # None
    /\ Exists(cands, b.candidate_id)
    /\ cands[b.candidate_id].const_id = b.const_id

\* The candidate is not looked up.
ConstituencyGood_NoLookup(b, cands) ==
    /\ b.candidate_id # None
    /\ b.party_id = None

\* good, Constituency branch: candidate given, no party, and the candidate
\* exists in the ballot's constituency.
ConstituencyGood(b, cands) ==
    /\ b.candidate_id # None
    /\ b.party_id = None
    /\ Exists(cands, b.candidate_id)
    /\ cands[b.candidate_id].const_id = b.const_id

\* The party is not looked up.
PartyListGood_NoLookup(b, ps) ==
    /\ b.party_id # None
    /\ b.candidate_id = None

\* good, PartyList branch: party given, no candidate, and the party exists.
PartyListGood(b, ps) ==
    /\ b.party_id # None
    /\ b.candidate_id = None
    /\ Exists(ps, b.party_id)

\* Only party_id is cleared; candidate_id is left as submitted.
ClearLinkage_PartyOnly(b) ==
    IF b.is_valid THEN b ELSE [b EXCEPT !.party_id = None]

\* A spoiled ballot of a recognized type keeps neither id.
ClearLinkage(b) ==
    IF b.is_valid THEN b
    ELSE [b EXCEPT !.candidate_id = None, !.party_id = None]

\* The ballot is good only if it was not already marked invalid: by the
\* home-constituency check or by the client.
JudgeRecognized_KeepsInvalid(b, cands, ps) ==
    LET good == IF b.vote_type = "Constituency"
                THEN ConstituencyGood(b, cands)
                ELSE PartyListGood(b, ps)
    IN  ClearLinkage([b EXCEPT !.is_valid = b.is_valid /\ good])

\* The ballot object as a recognized branch leaves it.
JudgeRecognized(b, cands, ps) ==
    LET good == IF b.vote_type = "Constituency"
                THEN ConstituencyGood(b, cands)
                ELSE PartyListGood(b, ps)
    IN  ClearLinkage([b EXCEPT !.is_valid = good])

\* is_valid is left as the request and the home check set it.
JudgeUnrecognized_Unjudged(b) == b

\* The ballot object as the unrecognized-type branch leaves it.
JudgeUnrecognized(b) == [b EXCEPT !.is_valid = FALSE]

\* Each branch sets the other branch's flag.
MarkVoted_Swapped(voter, vote_type) ==
    IF vote_type = "Constituency"
    THEN [voter EXCEPT !.has_voted_list = 1]
    ELSE [voter EXCEPT !.has_voted_const = 1]

\* voter.has_voted_const = 1, or voter.has_voted_list = 1, on the loaded
\* voter object.
MarkVoted(voter, vote_type) ==
    IF vote_type = "Constituency"
    THEN [voter EXCEPT !.has_voted_const = 1]
    ELSE [voter EXCEPT !.has_voted_list = 1]

\* The attributes of a loaded object that hold a new value: what the
\* session's flush will write.
Modified(loaded, obj) ==
    {a \in {"has_voted_const", "has_voted_list"} : loaded[a] # obj[a]}

\* The whole row is written back at commit, not the modified attributes.
FlushVoter_WholeRow(vs, voter_id, obj, dirty) ==
    [vs EXCEPT ![voter_id] = obj]

\* session.commit() of a loaded voter: an UPDATE of the attributes that
\* were assigned a new value, and of no other column.
FlushVoter(vs, voter_id, obj, dirty) ==
    [vs EXCEPT ![voter_id] =
        [@ EXCEPT
           !.has_voted_const =
               IF "has_voted_const" \in dirty THEN obj.has_voted_const ELSE @,
           !.has_voted_list =
               IF "has_voted_list" \in dirty THEN obj.has_voted_list ELSE @]]

\* raise HTTPException(status_code, detail).
Raised(status_code, detail) ==
    [pc |-> "raised", status_code |-> status_code, detail |-> detail]

AlreadyVotedDetail(vote_type) ==
    IF vote_type = "Constituency"
    THEN "Already voted constituency"
    ELSE "Already voted party list"

InFlight == Cardinality({s \in DOMAIN session : session[s].pc = "commit"})

\* What a session holds once the handler has reached session.add: the
\* ballot and the voter as judged and marked in memory, with the voter
\* attributes to flush.
Pending(ballot, loaded, voter) ==
    [pc |-> "commit", ballot |-> ballot, voter |-> voter,
     dirty |-> Modified(loaded, voter)]

\* The unrecognized-type branch comes before the voter lookup.
Handle_TypeFirst(b, vs, cands, ps) ==
    IF ~Recognized(b.vote_type)
    THEN LET nobody == [const_id |-> b.const_id, has_voted_const |-> 0,
                        has_voted_list |-> 0]
         IN  Pending(JudgeUnrecognized(b), nobody, nobody)
    ELSE IF ~Exists(vs, b.voter_id)
    THEN Raised(404, "Voter not found")
    ELSE LET voter == vs[b.voter_id]
         IN  IF AlreadyVoted(voter, b.vote_type)
             THEN Raised(400, AlreadyVotedDetail(b.vote_type))
             ELSE Pending(JudgeRecognized(HomeCheck(b, voter), cands, ps),
                          voter, MarkVoted(voter, b.vote_type))

\* A spoiled ballot of a recognized type does not use up the voter's right.
Handle_SpoiledKeepsRight(b, vs, cands, ps) ==
    IF ~Exists(vs, b.voter_id)
    THEN Raised(404, "Voter not found")
    ELSE LET voter == vs[b.voter_id]
             b1 == HomeCheck(b, voter)
             judged == JudgeRecognized(b1, cands, ps)
         IN  IF ~Recognized(b.vote_type)
             THEN Pending(JudgeUnrecognized(b1), voter, voter)
             ELSE IF AlreadyVoted(voter, b.vote_type)
             THEN Raised(400, AlreadyVotedDetail(b.vote_type))
             ELSE Pending(judged, voter,
                          IF judged.is_valid
                          THEN MarkVoted(voter, b.vote_type) ELSE voter)

\* The handler's path through its branches, in the order of the code.
Handle(b, vs, cands, ps) ==
    IF ~Exists(vs, b.voter_id)
    THEN Raised(404, "Voter not found")
    ELSE LET voter == vs[b.voter_id]
             b1 == HomeCheck(b, voter)
         IN  IF ~Recognized(b.vote_type)
             THEN Pending(JudgeUnrecognized(b1), voter, voter)
             ELSE IF AlreadyVoted(voter, b.vote_type)
             THEN Raised(400, AlreadyVotedDetail(b.vote_type))
             ELSE Pending(JudgeRecognized(b1, cands, ps), voter,
                          MarkVoted(voter, b.vote_type))

\* POST /ballots up to (not including) session.add: the voter lookup, the
\* rejections, and the judgement of the ballot on the in-memory objects.
\* The table is capped at MaxBallots rows: a request that would add one
\* more is not taken up.
create_ballot_read(s, b) ==
    /\ session[s] = NoSession
    /\ session' = [session EXCEPT ![s] =
                        Handle(b, voters, candidates, parties)]
    /\ (session'[s].pc = "commit" => Len(ballots) + InFlight < MaxBallots)
    /\ UNCHANGED <<regions, constituencies, parties, candidates, voters,
                   ballots>>

\* The ballot takes the place of the voter's earlier ballot of the same
\* vote type, when there is one.
InsertBallot_Upsert(bs, b) ==
    IF \E i \in 1..Len(bs) :
          bs[i].voter_id = b.voter_id /\ bs[i].vote_type = b.vote_type
    THEN [i \in 1..Len(bs) |->
            IF bs[i].voter_id = b.voter_id /\ bs[i].vote_type = b.vote_type
            THEN b ELSE bs[i]]
    ELSE Append(bs, b)

\* session.add(ballot) of a new object: at commit an INSERT of one row,
\* with the next ballot_id.
InsertBallot(bs, b) == Append(bs, b)

\* The ballot is committed in a transaction of its own, the voter in a
\* second one.
create_ballot_commit_TwoTransactions(s) ==
    \/ /\ session[s].pc = "commit"
       /\ ballots' = Append(ballots, session[s].ballot)
       /\ session' = [session EXCEPT ![s].pc = "commit voter"]
       /\ UNCHANGED <<regions, constituencies, parties, candidates, voters>>
    \/ /\ session[s].pc = "commit voter"
       /\ voters' = FlushVoter(voters, session[s].ballot.voter_id,
                               session[s].voter, session[s].dirty)
       /\ session' = [session EXCEPT ![s] = NoSession]
       /\ UNCHANGED <<regions, constituencies, parties, candidates, ballots>>

\* session.add(ballot); session.add(voter); session.commit(): the INSERT of
\* the ballot and the UPDATE of the voter in one transaction.  The ballot
\* is returned and the session ends.
create_ballot_commit(s) ==
    /\ session[s].pc = "commit"
    /\ ballots' = InsertBallot(ballots, session[s].ballot)
    /\ voters' = FlushVoter(voters, session[s].ballot.voter_id,
                            session[s].voter, session[s].dirty)
    /\ session' = [session EXCEPT ![s] = NoSession]
    /\ UNCHANGED <<regions, constituencies, parties, candidates>>

\* An HTTPException leaves the handler: get_session's with-block closes the
\* session, nothing having been added to it.
close_session(s) ==
    /\ session[s].pc = "raised"
    /\ session' = [session EXCEPT ![s] = NoSession]
    /\ UNCHANGED <<regions, constituencies, parties, candidates, voters,
                   ballots>>

\* ------------------------------------------------------- specifications

Registry ==
    \/ \E n \in RegionNames : create_region(n)
    \/ \E r \in 1..MaxRegions, n \in ConstNumbers : create_constituency(r, n)
    \/ \E n \in PartyNames : create_party(n)
    \/ \E c \in ConstIds, p \in PartyIds, n \in FullNames :
            create_candidate(c, p, n)

Register == \E c \in ConstIds, f \in FlagValues, g \in FlagValues :
                create_voter(c, f, g)

SetStatus == \E v \in VoterIds, f \in FlagValues \cup {None},
                g \in FlagValues \cup {None} : update_voter_status(v, f, g)

Receive == \E s \in DOMAIN session, b \in BallotRequests :
                create_ballot_read(s, b)

Commit == \E s \in DOMAIN session : create_ballot_commit(s)

Close == \E s \in DOMAIN session : close_session(s)

\* The whole program, requests interleaving.
Next == Registry \/ Register \/ SetStatus \/ Receive \/ Commit \/ Close

Spec == Init /\ [][Next]_vars

\* A registry the creation handlers above build from the empty database:
\* one region, its constituencies 1 and 2, one party, and that party's
\* candidate in constituency 1.  Candidate 2 and party 2 do not exist.
PopulatedRegistry ==
    /\ regions = <<[name_th |-> "North"]>>
    /\ constituencies = <<[region_id |-> 1, const_number |-> 1],
                          [region_id |-> 1, const_number |-> 2]>>
    /\ parties = <<[party_name |-> "P"]>>
    /\ candidates = <<[const_id |-> 1, party_id |-> 1, full_name |-> "A"]>>

\* Voter registration and ballot admission, requests interleaving.
InitConc ==
    /\ PopulatedRegistry
    /\ voters = << >>
    /\ ballots = << >>
    /\ session = [s \in SlotsConc |-> NoSession]

NextConc == Register \/ Receive \/ Commit \/ Close

SpecConc == InitConc /\ [][NextConc]_vars

\* Voter registration and ballot admission, one request at a time.
InitSeq ==
    /\ PopulatedRegistry
    /\ voters = << >>
    /\ ballots = << >>
    /\ session = [s \in SlotsSeq |-> NoSession]

NextSeq ==
    \/ Idle /\ Register
    \/ Receive
    \/ Commit
    \/ Close

SpecSeq == InitSeq /\ [][NextSeq]_vars

\* ==================================================================
\* Properties of ballot admission
\* ==================================================================

RecognizedTypes == {"Constituency", "PartyList"}

\* The rows of Ballots cast by voter v with vote type t.
BallotsOf(v, t) ==
    {i \in 1..Len(ballots) :
        ballots[i].voter_id = v /\ ballots[i].vote_type = t}

\* Some session was turned away with this status and detail.
Rejected(status_code, detail) ==
    \E s \in DOMAIN session :
        /\ session[s].pc = "raised"
        /\ session[s].status_code = status_code
        /\ session[s].detail = detail

\* C1: with requests handled one at a time and nothing but create_ballot
\* writing voters, every voter has at most one persisted Constituency
\* ballot and at most one persisted PartyList ballot, valid or spoiled.
C1_AtMostOnePerType ==
    \A v \in VoterIds, t \in RecognizedTypes :
        Cardinality(BallotsOf(v, t)) <= 1

\* A voter with a spoiled Constituency ballot and a PartyList ballot on
\* record whose further attempt has just been turned away.
C1_Witness ==
    /\ Len(ballots) = 2
    /\ ballots[1].voter_id = ballots[2].voter_id
    /\ ballots[1].vote_type = "Constituency" /\ ~ballots[1].is_valid
    /\ ballots[2].vote_type = "PartyList" /\ ballots[2].is_valid
    /\ Rejected(400, "Already voted constituency")

\* C2: two concurrent requests of one voter and one recognized type never
\* both read the flag as not yet voted and both persist a ballot.
C2_Serialized ==
    ~ \E i, j \in 1..Len(ballots) :
        /\ i < j
        /\ ballots[i].voter_id = ballots[j].voter_id
        /\ ballots[i].vote_type = ballots[j].vote_type
        /\ ballots[i].vote_type \in RecognizedTypes

\* A step in which session s takes up a request.
TakesUp(s) == session[s].pc = "idle" /\ session'[s].pc # "idle"

\* A step in which session s ends, by commit or by closing after a raise.
Ends(s) == session[s].pc # "idle" /\ session'[s].pc = "idle"

\* C3: a Constituency (PartyList) request for a voter whose
\* has_voted_const (has_voted_list) flag is set is turned away with
\* "already voted", whatever linkage it carries and whether or not the
\* earlier attempt was spoiled; no ballot is persisted and no voter or
\* ballot row changes, neither when the request is turned away nor when
\* its session closes.
C3_SecondAttemptRejected ==
    [][\A s \in DOMAIN session :
        /\ TakesUp(s) =>
             \A b \in BallotRequests :
               ( /\ b.voter_id \in 1..Len(voters)
                 /\ \/ /\ b.vote_type = "Constituency"
                       /\ voters[b.voter_id].has_voted_const # 0
                    \/ /\ b.vote_type = "PartyList"
                       /\ voters[b.voter_id].has_voted_list # 0
                 /\ create_ballot_read(s, b) )
               => /\ session'[s].pc = "raised"
                  /\ session'[s].status_code = 400
                  /\ session'[s].detail =
                        (IF b.vote_type = "Constituency"
                         THEN "Already voted constituency"
                         ELSE "Already voted party list")
                  /\ UNCHANGED <<voters, ballots>>
        /\ (Ends(s) /\ session[s].pc = "raised")
             => UNCHANGED <<voters, ballots>>
      ]_vars

\* The only voter's only ballot is a spoiled PartyList one, and the voter's
\* next PartyList request has been turned away.
C3_Witness ==
    /\ Len(voters) = 1
    /\ Len(ballots) = 1
    /\ ballots[1].vote_type = "PartyList" /\ ~ballots[1].is_valid
    /\ Rejected(400, "Already voted party list")

\* C4: a request whose voter_id names no voter is turned away with
\* "voter not found" for every vote type, the unrecognized one included;
\* no ballot is persisted and no voter row changes.
C4_UnknownVoterRejected ==
    [][\A s \in DOMAIN session :
        /\ TakesUp(s) =>
             \A b \in BallotRequests :
               (b.voter_id \notin 1..Len(voters) /\ create_ballot_read(s, b))
               => /\ session'[s].pc = "raised"
                  /\ session'[s].status_code = 404
                  /\ session'[s].detail = "Voter not found"
                  /\ UNCHANGED <<voters, ballots>>
        /\ (Ends(s) /\ session[s].pc = "raised")
             => UNCHANGED <<voters, ballots>>
      ]_vars

\* A request has been turned away while no voter is registered.
C4_Witness ==
    /\ Len(voters) = 0
    /\ Len(ballots) = 0
    /\ Rejected(404, "Voter not found")

\* C5: a request of a recognized type for an existing voter whose flag
\* for that type is 0 is admitted, and its commit appends exactly one
\* ballot, sets that flag of that voter to 1 and changes nothing else in
\* Voters, whether the ballot is valid or spoiled.
C5_AdmissionConsumesRight ==
    [][\A s \in DOMAIN session :
        /\ TakesUp(s) =>
             \A b \in BallotRequests :
               ( /\ b.voter_id \in 1..Len(voters)
                 /\ \/ /\ b.vote_type = "Constituency"
                       /\ voters[b.voter_id].has_voted_const = 0
                    \/ /\ b.vote_type = "PartyList"
                       /\ voters[b.voter_id].has_voted_list = 0
                 /\ create_ballot_read(s, b) )
               => /\ session'[s].pc = "commit"
                  /\ session'[s].ballot.voter_id = b.voter_id
                  /\ session'[s].ballot.vote_type = b.vote_type
        /\ ( /\ Ends(s)
             /\ session[s].pc = "commit"
             /\ session[s].ballot.vote_type \in RecognizedTypes )
             => LET p == session[s].ballot
                    v == p.voter_id
                IN  /\ ballots' = Append(ballots, p)
                    /\ DOMAIN voters' = DOMAIN voters
                    /\ \A w \in DOMAIN voters : w # v => voters'[w] = voters[w]
                    /\ voters'[v].const_id = voters[v].const_id
                    /\ IF p.vote_type = "Constituency"
                       THEN /\ voters'[v].has_voted_const = 1
                            /\ voters'[v].has_voted_list =
                                   voters[v].has_voted_list
                       ELSE /\ voters'[v].has_voted_list = 1
                            /\ voters'[v].has_voted_const =
                                   voters[v].has_voted_const
      ]_vars

\* One voter holds a valid Constituency ballot and a spoiled PartyList
\* ballot, and both flags are 1.
C5_Witness ==
    /\ Len(ballots) = 2
    /\ ballots[1].voter_id = ballots[2].voter_id
    /\ ballots[1].vote_type = "Constituency" /\ ballots[1].is_valid
    /\ ballots[2].vote_type = "PartyList" /\ ~ballots[2].is_valid
    /\ voters[ballots[1].voter_id].has_voted_const = 1
    /\ voters[ballots[1].voter_id].has_voted_list = 1

C8_WrongVenueSpoiled ==
    \A i \in 1..Len(ballots) :
        ( /\ ballots[i].vote_type \in RecognizedTypes
          /\ ballots[i].const_id # voters[ballots[i].voter_id].const_id )
        => ~ballots[i].is_valid

\* C9: every persisted Constituency or PartyList ballot with is_valid
\* false has candidate_id and party_id absent.
C9_SpoiledCarriesNoLinkage ==
    \A i \in 1..Len(ballots) :
        (ballots[i].vote_type \in RecognizedTypes /\ ~ballots[i].is_valid)
        => ballots[i].candidate_id = None /\ ballots[i].party_id = None

\* A spoiled ballot of each recognized type is on record.
C9_Witness ==
    /\ Len(ballots) = 2
    /\ ballots[1].vote_type = "Constituency" /\ ~ballots[1].is_valid
    /\ ballots[2].vote_type = "PartyList" /\ ~ballots[2].is_valid

\* C10: a request of an unrecognized vote type for an existing voter is
\* admitted whatever the voter's flags are, is persisted with is_valid
\* false, and its commit changes no voter row, so that a flag that was 0
\* is 0 afterwards and the right it stands for can still be used.
C10_UnrecognizedTypeLeavesFlags ==
    [][\A s \in DOMAIN session :
        /\ TakesUp(s) =>
             \A b \in BallotRequests :
               ( /\ b.voter_id \in 1..Len(voters)
                 /\ b.vote_type \notin RecognizedTypes
                 /\ create_ballot_read(s, b) )
               => /\ session'[s].pc = "commit"
                  /\ session'[s].ballot.voter_id = b.voter_id
                  /\ session'[s].ballot.vote_type = b.vote_type
                  /\ ~session'[s].ballot.is_valid
                  /\ UNCHANGED <<voters, ballots>>
        /\ ( /\ Ends(s)
             /\ session[s].pc = "commit"
             /\ session[s].ballot.vote_type \notin RecognizedTypes )
             => /\ ballots' = Append(ballots, session[s].ballot)
                /\ ~ballots'[Len(ballots')].is_valid
                /\ voters' = voters
      ]_vars

\* A voter's Referendum ballot is on record, and after it the same
\* voter's Constituency ballot.
C10_Witness ==
    /\ Len(ballots) = 2
    /\ ballots[1].voter_id = ballots[2].voter_id
    /\ ballots[1].vote_type = "Referendum" /\ ~ballots[1].is_valid
    /\ ballots[2].vote_type = "Constituency"
    /\ voters[ballots[1].voter_id].has_voted_list = 0

\* ==================================================================
\* The unrecognized-type path
\* ==================================================================

\* C11: a ballot persisted through the unrecognized-vote-type path has
\* neither a candidate_id nor a party_id, whatever the request submitted.
C11_UnrecognizedCarriesNoLinkage ==
    \A i \in 1..Len(ballots) :
        ballots[i].vote_type \notin RecognizedTypes
        => /\ ballots[i].candidate_id = None
           /\ ballots[i].party_id = None

\* ==================================================================
\* The participation flags under every operation that writes a voter
\* ==================================================================

\* Voter registration, ballot admission one request at a time, and the
\* status endpoint.
NextStatus == Register \/ SetStatus \/ Receive \/ Commit \/ Close

SpecStatus == InitSeq /\ [][NextStatus]_vars

\* The value of a voter row's flag for a vote type.
FlagOfType(voter, t) ==
    IF t = "Constituency" THEN voter.has_voted_const ELSE voter.has_voted_list

\* This step is the commit of a recognized-type ballot of voter v and
\* vote type t.
AdmissionOf(v, t) ==
    \E s \in DOMAIN session :
        /\ Ends(s)
        /\ session[s].pc = "commit"
        /\ session[s].ballot.voter_id = v
        /\ session[s].ballot.vote_type = t
        /\ ballots' = Append(ballots, session[s].ballot)

\* This step is a call of the status endpoint for voter v.
StatusUpdateOf(v) ==
    \E f \in FlagValues \cup {None}, g \in FlagValues \cup {None} :
        update_voter_status(v, f, g)

FlagMatchesBallots(v, t) ==
    Truthy(FlagOfType(voters[v], t)) <=> BallotsOf(v, t) # {}

MaxTallyVoters == 2

TallyNames == {"A", "B"}

TallyVoterIds == 1..MaxTallyVoters

\* SELECT count(Ballot.ballot_id) WHERE is_valid = valid: the rows of
\* Ballots with that validity.
CountValidity(valid) ==
    Cardinality({i \in 1..Len(ballots) : ballots[i].is_valid = valid})

\* SELECT count(Ballot.ballot_id) WHERE is_valid = valid AND vote_type = t.
CountValidityOfType(valid, t) ==
    Cardinality({i \in 1..Len(ballots) :
                    ballots[i].is_valid = valid /\ ballots[i].vote_type = t})

\* GET /ballots/summary.
ballots_summary ==
    [total_ballots |-> Len(ballots),
     valid_ballots |-> CountValidity(TRUE),
     invalid_ballots |-> CountValidity(FALSE),
     valid_constituency |-> CountValidityOfType(TRUE, "Constituency"),
     valid_partylist |-> CountValidityOfType(TRUE, "PartyList"),
     invalid_constituency |-> CountValidityOfType(FALSE, "Constituency"),
     invalid_partylist |-> CountValidityOfType(FALSE, "PartyList")]

\* The rows of Ballots that pass WHERE vote_type = t AND is_valid = True.
ValidOfType(t) ==
    {i \in 1..Len(ballots) :
        ballots[i].vote_type = t /\ ballots[i].is_valid}

\* An inner JOIN on a primary key: the row has a partner when the key is
\* not NULL and names a row of the table.
Joins(table, id) == id # None /\ Exists(table, id)

\* group_by(...) with count(Ballot.ballot_id): key maps each joined row to
\* its values of the grouping columns; one row comes back per value,
\* carrying the number of joined rows with it.
GroupCount(key) ==
    {[key |-> k,
      total_votes |-> Cardinality({j \in DOMAIN key : key[j] = k})] :
        k \in {key[i] : i \in DOMAIN key}}

\* Ballot JOIN Candidate JOIN Party (the candidate's party).
JoinsCandidateAndParty(i) ==
    /\ Joins(candidates, ballots[i].candidate_id)
    /\ Joins(parties, candidates[ballots[i].candidate_id].party_id)

\* GET /results/constituency: Ballot JOIN Constituency JOIN Candidate JOIN
\* Party, valid Constituency ballots, grouped by the constituency's number,
\* the candidate's name and the party's name.
results_constituency_by_district ==
    LET joined == {i \in ValidOfType("Constituency") :
                      /\ Joins(constituencies, ballots[i].const_id)
                      /\ JoinsCandidateAndParty(i)}
        key == [i \in joined |->
            [const_number |-> constituencies[ballots[i].const_id].const_number,
             candidate_name |-> candidates[ballots[i].candidate_id].full_name,
             party_name |->
                 parties[candidates[ballots[i].candidate_id].party_id].party_name]]
    IN  GroupCount(key)

\* GET /results/party: Ballot JOIN Constituency JOIN Party (the ballot's
\* party), valid PartyList ballots, grouped by the constituency's number
\* and the party's name.
results_party_by_district ==
    LET joined == {i \in ValidOfType("PartyList") :
                      /\ Joins(constituencies, ballots[i].const_id)
                      /\ Joins(parties, ballots[i].party_id)}
        key == [i \in joined |->
            [const_number |-> constituencies[ballots[i].const_id].const_number,
             party_name |-> parties[ballots[i].party_id].party_name]]
    IN  GroupCount(key)

\* GET /results/constituency/overall: Ballot JOIN Candidate JOIN Party,
\* valid Constituency ballots, grouped by candidate name and party name.
results_constituency_overall ==
    LET joined == {i \in ValidOfType("Constituency") :
                      JoinsCandidateAndParty(i)}
        key == [i \in joined |->
            [candidate_name |-> candidates[ballots[i].candidate_id].full_name,
             party_name |->
                 parties[candidates[ballots[i].candidate_id].party_id].party_name]]
    IN  GroupCount(key)

\* GET /results/party/overall: Ballot JOIN Party, valid PartyList ballots,
\* grouped by party name.
results_party_overall ==
    LET joined == {i \in ValidOfType("PartyList") :
                      Joins(parties, ballots[i].party_id)}
        key == [i \in joined |->
                  [party_name |-> parties[ballots[i].party_id].party_name]]
    IN  GroupCount(key)

\* The registries the tallies are read over, each one built by the
\* creation handlers: one region; constituency 1 alone, or with a second
\* constituency of the same or of another number; one party; candidate 1
\* in constituency 1 alone, or with a second candidate of the same or of
\* another name in either constituency.
TallyRegistry ==
    /\ regions = <<[name_th |-> "North"]>>
    /\ constituencies \in
          {<<[region_id |-> 1, const_number |-> 1]>>}
          \cup {<<[region_id |-> 1, const_number |-> 1],
                  [region_id |-> 1, const_number |-> n]>> : n \in ConstNumbers}
    /\ parties = <<[party_name |-> "P"]>>
    /\ candidates \in
          {<<[const_id |-> 1, party_id |-> 1, full_name |-> "A"]>>}
          \cup {<<[const_id |-> 1, party_id |-> 1, full_name |-> "A"],
                  [const_id |-> c, party_id |-> 1, full_name |-> n]>> :
                    c \in 1..Len(constituencies), n \in TallyNames}

\* The registry, and a voter registered in the first and in the last
\* constituency, neither having voted.
InitTally ==
    /\ TallyRegistry
    /\ voters = [v \in TallyVoterIds |->
                    [const_id |-> IF v = 1 THEN 1 ELSE Len(constituencies),
                     has_voted_const |-> 0, has_voted_list |-> 0]]
    /\ ballots = << >>
    /\ session = [s \in SlotsSeq |-> NoSession]

\* The ballots cast while the tallies are read: of a recognized type, by a
\* registered voter.
TallyRequests ==
    [voter_id : TallyVoterIds, const_id : ConstIds,
     candidate_id : {None} \cup CandIds, party_id : {None} \cup PartyIds,
     vote_type : {"Constituency", "PartyList"}, is_valid : {TRUE}]

Cast == \E s \in DOMAIN session, b \in TallyRequests :
            create_ballot_read(s, b)

NextTally == Cast \/ Commit \/ Close

SpecTally == InitTally /\ [][NextTally]_vars

RECURSIVE SumVotes(_)
\* The sum of the counts of the rows of a result.
SumVotes(rows) ==
    IF rows = {} THEN 0
    ELSE LET r == CHOOSE x \in rows : TRUE
         IN  r.total_votes + SumVotes(rows \ {r})

\* C14: the counts of the rows of results_constituency_by_district and the
\* counts of the rows of results_constituency_overall both add up to the
\* number of persisted valid Constituency ballots.
C14_ConstituencyTalliesAddUp ==
    /\ SumVotes(results_constituency_by_district)
         = ballots_summary.valid_constituency
    /\ SumVotes(results_constituency_overall)
         = ballots_summary.valid_constituency

\* Two valid Constituency ballots on record, counted in two rows by
\* district and in one row overall; a spoiled one would not count.
C14_Witness ==
    /\ ballots_summary.valid_constituency = 2
    /\ Cardinality(results_constituency_by_district) = 2
    /\ Cardinality(results_constituency_overall) = 1

\* The valid Constituency ballots persisted for constituency c and
\* candidate k.
ValidConstituencyBallotsFor(c, k) ==
    {i \in ValidOfType("Constituency") :
        ballots[i].const_id = c /\ ballots[i].candidate_id = k}

\* C15: every row of results_constituency_by_district stands for one
\* (constituency, candidate) pair: it carries that constituency's number,
\* that candidate's name and party, and its count is the number of valid
\* Constituency ballots persisted for that constituency and candidate, so
\* that ballots of two constituencies or of two candidates are never
\* added into one row.
C15_OneRowPerConstituencyAndCandidate ==
    \A r \in results_constituency_by_district :
        \E c \in 1..Len(constituencies), k \in 1..Len(candidates) :
            /\ r.key.const_number = constituencies[c].const_number
            /\ r.key.candidate_name = candidates[k].full_name
            /\ r.key.party_name = parties[candidates[k].party_id].party_name
            /\ r.total_votes = Cardinality(ValidConstituencyBallotsFor(c, k))

\* ==================================================================
\* The commit of an admission
\* ==================================================================

\* C16: with create_voter and create_ballot running, requests
\* interleaving, no state that a step leads to has a Constituency or
\* PartyList ballot persisted for a voter whose flag for that type is
\* false, and a flag of a registered voter is raised only in the step
\* that persists the ballot of that voter and type.
C16_BallotAndFlagCommitTogether ==
    [][/\ \A i \in 1..Len(ballots') :
            ballots'[i].vote_type \in RecognizedTypes
            => Truthy(FlagOfType(voters'[ballots'[i].voter_id],
                                 ballots'[i].vote_type))
       /\ \A v \in 1..Len(voters), t \in RecognizedTypes :
            FlagOfType(voters'[v], t) # FlagOfType(voters[v], t)
            => AdmissionOf(v, t)
      ]_vars

\* One request of a voter has committed its PartyList ballot and raised
\* the flag while another request of the same voter, for a Constituency
\* ballot, is still before its commit: the ballot is on record with its
\* flag, the other flag is down and no Constituency ballot is on record.
C16_Witness ==
    \E s \in DOMAIN session :
        /\ session[s].pc = "commit"
        /\ session[s].ballot.vote_type = "Constituency"
        /\ BallotsOf(session[s].ballot.voter_id, "PartyList") # {}
        /\ BallotsOf(session[s].ballot.voter_id, "Constituency") = {}
        /\ voters[session[s].ballot.voter_id].has_voted_list = 1
        /\ voters[session[s].ballot.voter_id].has_voted_const = 0

\* ==================================================================
\* Every operation of the program, from the empty database
\* ==================================================================

\* The ballots cast while the registry is still being built.
FrameRequests ==
    [voter_id : VoterIds, const_id : {1}, candidate_id : {None, 1},
     party_id : {None}, vote_type : VoteTypes, is_valid : {TRUE}]

Lodge == \E s \in DOMAIN session, b \in FrameRequests :
            create_ballot_read(s, b)

InitFrame ==
    /\ regions = << >>
    /\ constituencies = << >>
    /\ parties = << >>
    /\ candidates = << >>
    /\ voters = << >>
    /\ ballots = << >>
    /\ session = [s \in SlotsSeq |-> NoSession]

\* Registry creation, voter registration, the status endpoint and ballot
\* admission, one ballot request at a time.
NextFrame == Registry \/ Register \/ SetStatus \/ Lodge \/ Commit \/ Close

SpecFrame == InitFrame /\ [][NextFrame]_vars

\* This step is the commit of a create_ballot request.
SuccessfulCreateBallot ==
    \E s \in DOMAIN session :
        /\ Ends(s)
        /\ session[s].pc = "commit"
        /\ ballots' = Append(ballots, session[s].ballot)

\* C17: ballots are append-only.  No step changes a field of a persisted
\* ballot or removes one, and a step that is not the commit of a
\* create_ballot request (registry creation, voter registration, the
\* status endpoint, a request being read or turned away) leaves the
\* persisted ballots as they are.
C17_BallotsAppendOnly ==
    [][/\ Len(ballots') >= Len(ballots)
       /\ \A i \in 1..Len(ballots) : ballots'[i] = ballots[i]
       /\ ballots' # ballots => SuccessfulCreateBallot
      ]_vars

\* A voter's Constituency ballot is on record spoiled; the flag was put
\* back through the status endpoint and the voter's second, valid
\* Constituency ballot is on record after the first, which still stands.
C17_Witness ==
    /\ Len(ballots) = 2
    /\ ballots[1].voter_id = ballots[2].voter_id
    /\ ballots[1].vote_type = "Constituency" /\ ~ballots[1].is_valid
    /\ ballots[2].vote_type = "Constituency" /\ ballots[2].is_valid

\* ==================================================================
\* What the validity of a ballot depends on
\* ==================================================================

\* The voter rows a request can meet.
VoterRows ==
    [const_id : ConstIds, has_voted_const : FlagValues,
     has_voted_list : FlagValues]

\* The persisted is_valid, candidate_id and party_id of a ballot.
Verdict(ballot) ==
    <<ballot.is_valid, ballot.candidate_id, ballot.party_id>>

C19_PartyTalliesAddUp ==
    SumVotes(results_party_by_district) = SumVotes(results_party_overall)

\* The persisted ballots whose vote_type is neither Constituency nor
\* PartyList.
UnrecognizedBallots ==
    {i \in 1..Len(ballots) : ballots[i].vote_type \notin RecognizedTypes}

\* C20: the counters of ballots_summary agree with each other: the total
\* is valid plus invalid, valid is valid_constituency plus
\* valid_partylist, and invalid is invalid_constituency plus
\* invalid_partylist plus the number of ballots of unrecognized type.
C20_SummaryAddsUp ==
    LET sum == ballots_summary
    IN  /\ sum.total_ballots = sum.valid_ballots + sum.invalid_ballots
        /\ sum.valid_ballots = sum.valid_constituency + sum.valid_partylist
        /\ sum.invalid_ballots =
             sum.invalid_constituency + sum.invalid_partylist
               + Cardinality(UnrecognizedBallots)

\* A Referendum ballot sent as valid and a valid PartyList ballot are on
\* record: one invalid ballot that neither per-type counter has, one
\* valid.
C20_Witness ==
    /\ ballots_summary.total_ballots = 2
    /\ ballots_summary.valid_partylist = 1
    /\ ballots_summary.invalid_ballots = 1
    /\ ballots_summary.invalid_constituency = 0
    /\ ballots_summary.invalid_partylist = 0

\* ==================================================================
\* Two ballot types of one voter at once
\* ==================================================================

\* The other recognized vote type.
OtherType(t) == IF t = "Constituency" THEN "PartyList" ELSE "Constituency"

\* Session s holds an admitted ballot of voter v and vote type t, not yet
\* committed.
PendingFor(s, v, t) ==
    /\ session[s].pc = "commit"
    /\ session[s].ballot.voter_id = v
    /\ session[s].ballot.vote_type = t

\* C21: a Constituency and a PartyList request of one voter whose flags
\* are both false, running concurrently, are both admitted, and each
\* commit raises the flag of its own type and leaves the voter's other
\* flag as the database has it: after both commits both flags are true.
\* A request of type t read while the voter's request of the other type
\* is pending and the flag of t is down is admitted; and every commit of
\* a recognized-type ballot appends the ballot, leaves the flag of its
\* type true and keeps the other flag, so a flag the other request has
\* committed in between is not put back.
C21_BothTypesAtOnce ==
    [][\A s \in DOMAIN session :
        /\ TakesUp(s) =>
             \A b \in BallotRequests :
               ( /\ b.vote_type \in RecognizedTypes
                 /\ b.voter_id \in 1..Len(voters)
                 /\ ~Truthy(FlagOfType(voters[b.voter_id], b.vote_type))
                 /\ \E o \in DOMAIN session \ {s} :
                       PendingFor(o, b.voter_id, OtherType(b.vote_type))
                 /\ create_ballot_read(s, b) )
               => session'[s].pc = "commit"
        /\ ( /\ Ends(s)
             /\ session[s].pc = "commit"
             /\ session[s].ballot.vote_type \in RecognizedTypes )
             => LET v == session[s].ballot.voter_id
                    t == session[s].ballot.vote_type
                IN  /\ ballots' = Append(ballots, session[s].ballot)
                    /\ Truthy(FlagOfType(voters'[v], t))
                    /\ FlagOfType(voters'[v], OtherType(t))
                         = FlagOfType(voters[v], OtherType(t))
      ]_vars

\* The voter's Constituency ballot is committed with its flag while the
\* voter's PartyList request, which read the voter with both flags false,
\* is still before its commit.
C21_Witness ==
    \E s \in DOMAIN session, v \in 1..Len(voters) :
        /\ PendingFor(s, v, "PartyList")
        /\ session[s].voter.has_voted_const = 0
        /\ "has_voted_const" \notin session[s].dirty
        /\ voters[v].has_voted_const = 1
        /\ voters[v].has_voted_list = 0
        /\ BallotsOf(v, "Constituency") # {}

====
